---- MODULE Spec2Model ----
(***************************************************************************)
(* Model of the mirror chatbot scripts src/app3.py and src/app4.py: the    *)
(* response extraction (extract_text / parse_gemini_response), ask_gemini, *)
(* mirror_response, and the Streamlit script run (buttons, input section,  *)
(* monologue tick, transcript, log).                                       *)
(*                                                                         *)
(* Strings are sequences of atoms.  An atom is either a whitespace         *)
(* character (" " or "\n") or an opaque piece of text that holds no        *)
(* leading or trailing whitespace.  The Korean literals of the source are  *)
(* written as ASCII atoms; the comment beside each gives the source line.  *)
(***************************************************************************)
EXTENDS Integers, Sequences, FiniteSets, TLC

VARIABLES
    variant,            \* the script that runs: "app3" or "app4"
    messages,           \* st.session_state["messages"]
    logfile,            \* the records written through st.session_state["logger"]
    monologue_running,  \* st.session_state["monologue_running"]
    last_debug,         \* st.session_state["last_debug"] (app4 only)
    user_input,         \* value of the text_input widget in the last run
    mirror_mode,        \* value of the mirror checkbox in the last run
    run,                \* what the last script run did (buttons, sections, failure)
    runs,               \* number of script runs so far
    call                \* the single function application examined by SpecAsk / SpecMirror

vars == <<variant, messages, logfile, monologue_running, last_debug,
          user_input, mirror_mode, run, runs, call>>

(***************************************************************************)
(* Bounds of the model.                                                    *)
(***************************************************************************)
MaxRuns == 2
MaxCands == 2
MaxParts == 2
MaxLen == 3

(***************************************************************************)
(* Strings.                                                                *)
(***************************************************************************)
SP == " "
NL == "\n"
Whitespace == {SP, NL}

RECURSIVE lstrip(_)
lstrip(s) ==
    IF s = <<>> THEN <<>>
    ELSE IF Head(s) \in Whitespace THEN lstrip(Tail(s)) ELSE s

RECURSIVE rstrip(_)
rstrip(s) ==
    IF s = <<>> THEN <<>>
    ELSE IF s[Len(s)] \in Whitespace THEN rstrip(SubSeq(s, 1, Len(s) - 1)) ELSE s

\* str.strip(): leading and trailing whitespace removed, inner whitespace kept
strip(s) == rstrip(lstrip(s))

\* sep.join(texts)
RECURSIVE join(_, _)
join(sep, texts) ==
    IF texts = <<>> THEN <<>>
    ELSE IF Len(texts) = 1 THEN texts[1]
    ELSE texts[1] \o sep \o join(sep, Tail(texts))

\* the first run of non-whitespace atoms of s
RECURSIVE first_word(_)
first_word(s) ==
    IF s = <<>> \/ Head(s) \in Whitespace THEN <<>>
    ELSE <<Head(s)>> \o first_word(Tail(s))

\* user_input.strip().split()[0]: raises IndexError when split() is empty
split_first(s) ==
    LET t == strip(s)
    IN  IF t = <<>> THEN [raised |-> TRUE, value |-> <<>>]
        ELSE [raised |-> FALSE, value |-> first_word(t)]

Contains(s, t) ==
    \E i \in 0..(Len(s) - Len(t)) : SubSeq(s, i + 1, i + Len(t)) = t

EndsWith(s, t) ==
    Len(t) <= Len(s) /\ SubSeq(s, Len(s) - Len(t) + 1, Len(s)) = t

StartsWith(s, t) ==
    Len(t) <= Len(s) /\ SubSeq(s, 1, Len(t)) = t

\* all sequences over S of length at most n
RECURSIVE SeqsUpTo(_, _)
SeqsUpTo(S, n) ==
    IF n = 0 THEN {<<>>}
    ELSE LET shorter == SeqsUpTo(S, n - 1)
         IN  shorter \cup {Append(q, x) : q \in shorter, x \in S}

(***************************************************************************)
(* 5) mirror_response                                                      *)
(***************************************************************************)
\* keys of mirror_hierarchy: water, fire, wind, earth, monologue
K_WATER == <<"mul">>
K_FIRE == <<"bul">>
K_WIND == <<"baram">>
K_EARTH == <<"heulk">>
K_MONO == <<"honjatmal">>

\* mirror_hierarchy[key]["conclusion"]
mirror_hierarchy ==
    (K_WATER :> <<"gate of peace and life">>)
    @@ (K_FIRE :> <<"guide of light and peace">>)
    @@ (K_WIND :> <<"breath of freedom and flow">>)
    @@ (K_EARTH :> <<"rest of embrace and root">>)
    @@ (K_MONO :> <<"mirror-like whisper lighting the inside">>)

NoDefinitionNotice(subject) ==
    <<"mirror: (subject '">> \o subject \o <<"' has no definition)">>

ContrastSentence(subject) ==
    subject \o <<" claims nothing itself but holds everything.">>

\* mirror_response with the text trimmed on both branches
mirror_response_trims_always(subject, original) ==
    IF subject \notin DOMAIN mirror_hierarchy
    THEN NoDefinitionNotice(subject) \o <<NL, NL>> \o strip(original)
    ELSE <<"mirror (">> \o subject \o <<"):", NL>>
         \o <<"- original: ">> \o strip(original) \o <<NL>>
         \o <<"- contrast: ">> \o ContrastSentence(subject) \o <<NL>>
         \o <<"- synthesis: ">> \o mirror_hierarchy[subject]

mirror_response(subject, original) ==
    IF subject \notin DOMAIN mirror_hierarchy
    THEN NoDefinitionNotice(subject) \o <<NL, NL>> \o original
    ELSE <<"mirror (">> \o subject \o <<"):", NL>>
         \o <<"- original: ">> \o strip(original) \o <<NL>>
         \o <<"- contrast: ">> \o ContrastSentence(subject) \o <<NL>>
         \o <<"- synthesis: ">> \o mirror_hierarchy[subject]

(***************************************************************************)
(* The response object of the SDK.  Every attribute read of the code is a  *)
(* field [st, v]: st = "ok" (the read yields v), "none" (the attribute is  *)
(* missing or None: getattr yields its default) or "raise" (the read       *)
(* raises an exception that is not AttributeError).                        *)
(***************************************************************************)
Ok(v) == [st |-> "ok", v |-> v]
None(filler) == [st |-> "none", v |-> filler]
Raise(filler) == [st |-> "raise", v |-> filler]

\* str(e) of the exception a failing attribute read raises
E_FIELD == "field access failed"

\* finish_reason values: the comment of src/app4.py line 187 and the test of line 219
STOP == 1
MAX_TOKENS == 2
\* how the model writes a finish_reason of None inside a list of finish reasons
FR_NONE == 0

\* Python truthiness of a str / of an attribute value
Truthy(f) == f.st = "ok" /\ f.v # <<>>

(***************************************************************************)
(* 6) traversal of candidates[*].content.parts[*].text, shared by          *)
(* extract_text (app3, finish_reason not read) and parse_gemini_response   *)
(* (app4).  The result says whether an exception left the loop, and what   *)
(* had been appended to texts and finish_reasons by then.                  *)
(***************************************************************************)
RECURSIVE collect_parts(_)
collect_parts(parts) ==
    IF parts = <<>> THEN [raised |-> FALSE, texts |-> <<>>]
    ELSE LET t == Head(parts)
         IN  IF t.st = "raise" THEN [raised |-> TRUE, texts |-> <<>>]
             ELSE LET rest == collect_parts(Tail(parts))
                  IN  [raised |-> rest.raised,
                       texts |-> (IF Truthy(t) THEN <<t.v>> ELSE <<>>) \o rest.texts]

\* one iteration of "for cand in candidates"
collect_candidate(cand, read_finish_reason) ==
    IF read_finish_reason /\ cand.finish_reason.st = "raise"
    THEN [raised |-> TRUE, texts |-> <<>>, finish_reasons |-> <<>>]
    ELSE LET frs == IF ~read_finish_reason THEN <<>>
                    ELSE IF cand.finish_reason.st = "ok" THEN <<cand.finish_reason.v>>
                    ELSE <<FR_NONE>>
         IN  IF cand.content.st = "raise"
             THEN [raised |-> TRUE, texts |-> <<>>, finish_reasons |-> frs]
             ELSE IF cand.content.st = "none"
             THEN [raised |-> FALSE, texts |-> <<>>, finish_reasons |-> frs]
             ELSE IF cand.content.v.parts.st = "raise"
             THEN [raised |-> TRUE, texts |-> <<>>, finish_reasons |-> frs]
             ELSE IF cand.content.v.parts.st = "none"
             THEN [raised |-> FALSE, texts |-> <<>>, finish_reasons |-> frs]
             ELSE LET r == collect_parts(cand.content.v.parts.v)
                  IN  [raised |-> r.raised, texts |-> r.texts, finish_reasons |-> frs]

RECURSIVE collect_candidates(_, _)
collect_candidates(cands, read_finish_reason) ==
    IF cands = <<>>
    THEN [raised |-> FALSE, texts |-> <<>>, finish_reasons |-> <<>>]
    ELSE LET c == collect_candidate(Head(cands), read_finish_reason)
         IN  IF c.raised THEN c
             ELSE LET rest == collect_candidates(Tail(cands), read_finish_reason)
                  IN  [raised |-> rest.raised,
                       texts |-> c.texts \o rest.texts,
                       finish_reasons |-> c.finish_reasons \o rest.finish_reasons]

\* the whole try block around the loop, getattr(resp, "candidates", []) included
traverse(resp, read_finish_reason) ==
    IF resp.candidates.st = "raise"
    THEN [raised |-> TRUE, texts |-> <<>>, finish_reasons |-> <<>>]
    ELSE IF resp.candidates.st = "none"
    THEN [raised |-> FALSE, texts |-> <<>>, finish_reasons |-> <<>>]
    ELSE collect_candidates(resp.candidates.v, read_finish_reason)

\* pf = getattr(resp, "prompt_feedback", None);
\* block_reason = getattr(pf, "block_reason", None) if pf else None
\* Either read may raise; otherwise the value read (or None).
read_block_reason(resp) ==
    IF resp.prompt_feedback.st = "raise" THEN [raised |-> TRUE, value |-> None(<<>>)]
    ELSE IF resp.prompt_feedback.st = "none" THEN [raised |-> FALSE, value |-> None(<<>>)]
    ELSE IF resp.prompt_feedback.v.block_reason.st = "raise"
    THEN [raised |-> TRUE, value |-> None(<<>>)]
    ELSE [raised |-> FALSE, value |-> resp.prompt_feedback.v.block_reason]

(***************************************************************************)
(* st.session_state["last_debug"]: one record shape for the four dicts     *)
(* the code stores ({}, the parse result, {"error": ..}, {"exception": ..})*)
(***************************************************************************)
EmptyDebug ==
    [keys |-> {}, finish_reasons |-> <<>>, block_reason |-> None(<<>>),
     num_parts_text |-> 0, detail |-> <<>>]

ParsedDebug(frs, br, n) ==
    [keys |-> {"finish_reasons", "block_reason", "num_parts_text"},
     finish_reasons |-> frs, block_reason |-> br, num_parts_text |-> n, detail |-> <<>>]

ErrorDebug(e) ==
    [keys |-> {"error"}, finish_reasons |-> <<>>, block_reason |-> None(<<>>),
     num_parts_text |-> 0, detail |-> <<"candidate parse failed: ", e>>]

ExceptionDebug(e) ==
    [keys |-> {"exception"}, finish_reasons |-> <<>>, block_reason |-> None(<<>>),
     num_parts_text |-> 0, detail |-> <<e>>]

\* parse_result that stores no block reason in the debug record
parse_result_drops_block_reason(w, b) ==
    IF w.raised
    THEN [raised |-> FALSE, text |-> <<>>, debug |-> ErrorDebug(E_FIELD)]
    ELSE IF b.raised
    THEN [raised |-> TRUE, text |-> <<>>, debug |-> EmptyDebug]
    ELSE [raised |-> FALSE,
          text |-> strip(join(<<NL>>, w.texts)),
          debug |-> ParsedDebug(w.finish_reasons, None(<<>>), Len(w.texts))]

\* app4, lines 180-191: w is what the try block of the loop did, b the reads
\* of lines 183-184 (made only when the loop raised nothing)
parse_result(w, b) ==
    IF w.raised
    THEN [raised |-> FALSE, text |-> <<>>, debug |-> ErrorDebug(E_FIELD)]
    ELSE IF b.raised
    THEN [raised |-> TRUE, text |-> <<>>, debug |-> EmptyDebug]
    ELSE [raised |-> FALSE,
          text |-> strip(join(<<NL>>, w.texts)),
          debug |-> ParsedDebug(w.finish_reasons, b.value, Len(w.texts))]

\* app4: parse_gemini_response(resp) -> (text, debug), or an exception
parse_gemini_response(resp) ==
    parse_result(traverse(resp, TRUE), read_block_reason(resp))

(***************************************************************************)
(* The literals of the display strings.                                    *)
(***************************************************************************)
WARN == "(!) "
NO_ANSWER == "The response could not be generated. Change the prompt a little and try again."
BLOCKED_HEAD == "The response was blocked by the safety policy. (reason: "
BLOCKED_TAIL == ")"
TRUNCATED_LINE == "The response reached the token limit (MAX_TOKENS) first and was empty."
SUGGEST_RAISE == "-> Suggestion: shorten the prompt a little, or raise the 'max_new_tokens' slider and try again."
CALL_ERROR_HEAD == "An error occurred while calling Gemini: "

BlockedMessage(br) == <<WARN, BLOCKED_HEAD>> \o br \o <<BLOCKED_TAIL>>
TruncatedMessage == <<WARN, TRUNCATED_LINE, NL, SUGGEST_RAISE>>
EmptyMessage4 == <<WARN, NO_ANSWER>>
EmptyMessage3 == <<NO_ANSWER>>
CallErrorMessage(e) == <<WARN, CALL_ERROR_HEAD, e>>

\* app3: extract_text(resp) -> str, or an exception
\* hasattr(resp, "text") reads the property: only AttributeError means False,
\* any other exception leaves hasattr, outside the try of line 171.
extract_result(text, w, b) ==
    IF text.st = "raise"
    THEN [raised |-> TRUE, text |-> <<>>]
    ELSE IF Truthy(text)
    THEN [raised |-> FALSE, text |-> strip(text.v)]
    ELSE IF w.texts # <<>>
    THEN [raised |-> FALSE, text |-> strip(join(<<NL>>, w.texts))]
    ELSE IF b.raised
    THEN [raised |-> TRUE, text |-> <<>>]
    ELSE IF Truthy(b.value)
    THEN [raised |-> FALSE, text |-> BlockedMessage(b.value.v)]
    ELSE [raised |-> FALSE, text |-> <<>>]

extract_text(resp) ==
    extract_result(resp.text, traverse(resp, FALSE), read_block_reason(resp))

(***************************************************************************)
(* 7) ask_gemini.  gw is what model.generate_content did: it raised        *)
(* (kind "error", str(e) = detail) or returned resp (kind "resp").         *)
(* The result is the returned string and the value last_debug holds after. *)
(***************************************************************************)
TransportError(detail) == [kind |-> "error", detail |-> detail, resp |-> <<>>]
Returned(resp) == [kind |-> "resp", detail |-> "", resp |-> resp]

\* app4, lines 208-227, p being what parse_gemini_response did
answer_of_parse(p) ==
    IF p.raised
    THEN [answer |-> CallErrorMessage(E_FIELD), debug |-> ExceptionDebug(E_FIELD)]
    ELSE IF p.text # <<>>
    THEN [answer |-> p.text, debug |-> p.debug]
    ELSE IF Truthy(p.debug.block_reason)
    THEN [answer |-> BlockedMessage(p.debug.block_reason.v), debug |-> p.debug]
    ELSE IF \E i \in 1..Len(p.debug.finish_reasons) :
               p.debug.finish_reasons[i] = MAX_TOKENS
    THEN [answer |-> TruncatedMessage, debug |-> p.debug]
    ELSE [answer |-> EmptyMessage4, debug |-> p.debug]

ask_gemini4(gw) ==
    IF gw.kind = "error"
    THEN [answer |-> CallErrorMessage(gw.detail), debug |-> ExceptionDebug(gw.detail)]
    ELSE answer_of_parse(parse_gemini_response(gw.resp))

\* app3, lines 218-223, x being what extract_text did; app3 keeps no last_debug
answer_of_extract(x, debug) ==
    IF x.raised
    THEN [answer |-> CallErrorMessage(E_FIELD), debug |-> debug]
    ELSE IF x.text = <<>>
    THEN [answer |-> EmptyMessage3, debug |-> debug]
    ELSE [answer |-> x.text, debug |-> debug]

ask_gemini3(gw, debug) ==
    IF gw.kind = "error"
    THEN [answer |-> CallErrorMessage(gw.detail), debug |-> debug]
    ELSE answer_of_extract(extract_text(gw.resp), debug)

\* ask_gemini of the running script; debug is last_debug before the call
ask_gemini(v, gw, debug) ==
    IF v = "app4" THEN ask_gemini4(gw) ELSE ask_gemini3(gw, debug)

(***************************************************************************)
(* 2) write_log: a failing write or flush is swallowed; ok says whether    *)
(* this write reached the file.                                            *)
(***************************************************************************)
\* write_log putting the new record in front of the file
write_log_in_front(log, text, ok) == IF ok THEN <<text \o <<NL>>>> \o log ELSE log

write_log(log, text, ok) == IF ok THEN Append(log, text \o <<NL>>) ELSE log

UserAssistantRecord(u, a) == <<"USER: ">> \o u \o <<NL, "ASSISTANT: ">> \o a
MonoRecord(a) == <<"ASSISTANT(MONO): ">> \o a

(***************************************************************************)
(* 4) the two monologue buttons, read at the top of every script run.      *)
(* click is the button whose press caused this run, if any.                *)
(***************************************************************************)
Clicks == {"none", "start", "stop"}

\* buttons without the stop button of line 134
buttons_ignore_stop(flag, click) == IF click = "start" THEN TRUE ELSE flag

buttons(flag, click) ==
    LET after_start == IF click = "start" THEN TRUE ELSE flag
    IN  IF click = "stop" THEN FALSE ELSE after_start

(***************************************************************************)
(* 8) input section and 9) monologue tick.  s is the session state the     *)
(* section works on, with failed = an exception has ended the script run.  *)
(***************************************************************************)
UserEntry(text) == [role |-> "user", text |-> text]
AssistantEntry(text) == [role |-> "assistant", text |-> text]

\* lines 241-243 of app4: the two appends and the log record
append_turn(s, ui, answer, debug, log_ok) ==
    [messages |-> s.messages \o <<UserEntry(ui), AssistantEntry(answer)>>,
     logfile |-> write_log(s.logfile, UserAssistantRecord(ui, answer), log_ok),
     last_debug |-> debug,
     lost |-> IF log_ok THEN s.lost ELSE s.lost + 1,
     failed |-> FALSE]

\* lines 236-243 of app4, a being what ask_gemini(user_input) did and subject
\* what user_input.strip().split()[0] did (evaluated only in mirror mode)
input_turn(s, ui, mm, a, subject, log_ok) ==
    IF mm /\ subject.raised
    THEN [s EXCEPT !.last_debug = a.debug, !.failed = TRUE]
    ELSE append_turn(s, ui,
                     IF mm THEN mirror_response(subject.value, a.answer) ELSE a.answer,
                     a.debug, log_ok)

input_section(v, s, ui, mm, gw, log_ok) ==
    IF ui = <<>> THEN s
    ELSE input_turn(s, ui, mm, ask_gemini(v, gw, s.last_debug), split_first(ui), log_ok)

\* lines 260-261 of app4
append_monologue(s, answer, debug, log_ok) ==
    [messages |-> Append(s.messages, AssistantEntry(answer)),
     logfile |-> write_log(s.logfile, MonoRecord(answer), log_ok),
     last_debug |-> debug,
     lost |-> IF log_ok THEN s.lost ELSE s.lost + 1,
     failed |-> FALSE]

monologue_turn(s, mm, a, log_ok) ==
    append_monologue(s, IF mm THEN mirror_response(K_MONO, a.answer) ELSE a.answer,
                     a.debug, log_ok)

\* the fixed prompt of line 255 is not modelled: ask_gemini passes the prompt to
\* the gateway and never looks at it
monologue_tick(v, s, flag, mm, gw, log_ok) ==
    IF s.failed \/ ~flag THEN s
    ELSE monologue_turn(s, mm, ask_gemini(v, gw, s.last_debug), log_ok)

(***************************************************************************)
(* Responses.                                                              *)
(***************************************************************************)
NoContent == [parts |-> None(<<>>)]
NoFeedback == [block_reason |-> None(<<>>)]

Candidate(fr, content) == [finish_reason |-> fr, content |-> content]
Response(text, cands, pf) == [text |-> text, candidates |-> cands, prompt_feedback |-> pf]

\* one candidate, one part
SimpleResponse(fr, t, br) ==
    Response(Raise(<<>>),
             Ok(<<Candidate(Ok(fr), Ok([parts |-> Ok(<<Ok(t)>>)]))>>),
             Ok([block_reason |-> br]))

\* The responses of SpecAsk: at most MaxCands candidates holding at most
\* MaxParts parts in all, every attribute read able to fail.
PartTexts == {<<>>, <<SP>>, <<"a">>, <<"b">>}
PartFields == {Raise(<<>>)} \cup {Ok(t) : t \in PartTexts}
\* the parts of SpecDebug, where only the number of text-bearing parts matters
PlainPartFields == {Raise(<<>>), Ok(<<>>), Ok(<<"a">>)}

\* the sequences over S of length n
RECURSIVE SeqsOfLen(_, _)
SeqsOfLen(S, n) ==
    IF n = 0 THEN {<<>>}
    ELSE {Append(q, x) : q \in SeqsOfLen(S, n - 1), x \in S}

\* the content attributes that hold k parts drawn from P
ContentFields(P, k) ==
    (IF k = 0 THEN {None(NoContent), Raise(NoContent), Ok([parts |-> Raise(<<>>)])} ELSE {})
    \cup {Ok([parts |-> Ok(l)]) : l \in SeqsOfLen(P, k)}

\* app3 never reads finish_reason
FinishFields(v) ==
    IF v = "app4" THEN {Raise(FR_NONE), Ok(STOP), Ok(MAX_TOKENS)}
    ELSE {Ok(STOP), Ok(MAX_TOKENS)}

Candidates(v, P, k) ==
    {Candidate(fr, c) : fr \in FinishFields(v), c \in ContentFields(P, k)}

CandidatesUpTo(v, P, p) == UNION {Candidates(v, P, k) : k \in 0..p}

PartsOf(cand) ==
    IF cand.content.st = "ok" /\ cand.content.v.parts.st = "ok"
    THEN Len(cand.content.v.parts.v) ELSE 0

RECURSIVE PartsIn(_, _)
PartsIn(cands, n) == IF n = 0 THEN 0 ELSE PartsOf(cands[n]) + PartsIn(cands, n - 1)

FeedbackFields ==
    {None(NoFeedback), Raise(NoFeedback), Ok([block_reason |-> Raise(<<>>)]),
     Ok([block_reason |-> Ok(<<"SAFETY">>)])}

\* resp.text: app4 never reads it
TextAccessors(v) ==
    IF v = "app4" THEN {Raise(<<>>)}
    ELSE {None(<<>>), Raise(<<>>), Ok(<<"c", SP>>)}


E_TRANSPORT == "quota exceeded"

\* call is a pending ask_gemini whose gateway result is a transport error or
\* one of the responses over the parts P
PendingAsk(c, g) == c = [fn |-> "ask_gemini", pc |-> "start", gw |-> g, answer |-> <<>>]

\* candidates is unreadable, or a list of at most MaxCands candidates that
\* hold at most MaxParts parts in all
DrawGatewayResult(c, v, P) ==
    \E shape \in {"transport error", "no candidates", "candidates"} :
        CASE shape = "transport error" ->
                PendingAsk(c, TransportError(E_TRANSPORT))
          [] shape = "no candidates" ->
                \E t \in TextAccessors(v), f \in FeedbackFields :
                    PendingAsk(c, Returned(Response(t, Raise(<<>>), f)))
          [] shape = "candidates" ->
                \E n \in 0..MaxCands :
                \E l \in [1..n -> CandidatesUpTo(v, P, MaxParts)] :
                    /\ PartsIn(l, n) <= MaxParts
                    /\ \E t \in TextAccessors(v), f \in FeedbackFields :
                        PendingAsk(c, Returned(Response(t, Ok(l), f)))

\* the gateway results of the script runs of Spec
SessionGateway ==
    {TransportError(E_TRANSPORT),
     Returned(SimpleResponse(STOP, <<"a">>, None(<<>>)))}

\* the gateway and the log file act only when the script calls them
NotCalled == [kind |-> "none", detail |-> "", resp |-> <<>>]
GatewayIfCalled(called) == IF called THEN SessionGateway ELSE {NotCalled}
LogIfWritten(called) == IF called THEN BOOLEAN ELSE {TRUE}

UserTexts == {<<>>, <<SP>>, <<"mul", SP, "x">>}

Variants == {"app3", "app4"}

(***************************************************************************)
(* Spec: the script runs of one session.                                   *)
(***************************************************************************)
NoCall == [fn |-> "none", pc |-> "idle"]
NoRun == [click |-> "none", failed |-> FALSE, n_input |-> 0, n_mono |-> 0, lost |-> 0]

Init ==
    /\ variant \in Variants
    /\ messages = <<>>
    /\ logfile = <<>>
    /\ monologue_running = FALSE
    /\ last_debug = EmptyDebug
    /\ user_input = <<>>
    /\ mirror_mode = FALSE
    /\ run = NoRun
    /\ runs = 0
    /\ call = NoCall

\* the session state a script run starts from
SessionState ==
    [messages |-> messages, logfile |-> logfile, last_debug |-> last_debug,
     lost |-> run.lost, failed |-> FALSE]

ScriptRun ==
    /\ runs < MaxRuns
    /\ \E click \in Clicks, ui \in UserTexts, mm \in BOOLEAN :
        \E flag \in {buttons(monologue_running, click)} :
        \E g1 \in GatewayIfCalled(ui # <<>>), ok1 \in LogIfWritten(ui # <<>>) :
        \E s1 \in {input_section(variant, SessionState, ui, mm, g1, ok1)} :
        \E g2 \in GatewayIfCalled(flag /\ ~s1.failed),
           ok2 \in LogIfWritten(flag /\ ~s1.failed) :
        \E s2 \in {monologue_tick(variant, s1, flag, mm, g2, ok2)} :
            /\ monologue_running' = flag
            /\ messages' = s2.messages
            /\ logfile' = s2.logfile
            /\ last_debug' = s2.last_debug
            /\ user_input' = ui
            /\ mirror_mode' = mm
            /\ run' = [click |-> click, failed |-> s2.failed,
                       n_input |-> Len(s1.messages) - Len(messages),
                       n_mono |-> Len(s2.messages) - Len(s1.messages),
                       lost |-> s2.lost]
            /\ runs' = runs + 1
    /\ UNCHANGED <<variant, call>>

Next == ScriptRun

Spec == Init /\ [][Next]_vars

(***************************************************************************)
(* SpecAsk: one call of ask_gemini on every gateway result of the bounds.  *)
(***************************************************************************)
StaleDebug == ParsedDebug(<<STOP>>, None(<<>>), 1)

InitAsk ==
    /\ variant \in Variants
    /\ messages = <<>>
    /\ logfile = <<>>
    /\ monologue_running = FALSE
    /\ last_debug \in (IF variant = "app4" THEN {EmptyDebug, StaleDebug} ELSE {EmptyDebug})
    /\ user_input = <<>>
    /\ mirror_mode = FALSE
    /\ run = NoRun
    /\ runs = 0
    /\ DrawGatewayResult(call, variant, PartFields)

AskGemini ==
    /\ call.fn = "ask_gemini"
    /\ call.pc = "start"
    /\ \E r \in {ask_gemini(variant, call.gw, last_debug)} :
           /\ call' = [call EXCEPT !.pc = "done", !.answer = r.answer]
           /\ last_debug' = r.debug
    /\ UNCHANGED <<variant, messages, logfile, monologue_running, user_input,
                   mirror_mode, run, runs>>

NextAsk == AskGemini

SpecAsk == InitAsk /\ [][NextAsk]_vars

(***************************************************************************)
(* SpecDebug: one call of app4's ask_gemini, on responses whose parts are  *)
(* plain (text or no text), from a fresh and from a used last_debug.       *)
(***************************************************************************)
InitDebug ==
    /\ variant = "app4"
    /\ messages = <<>>
    /\ logfile = <<>>
    /\ monologue_running = FALSE
    /\ last_debug \in {EmptyDebug, StaleDebug}
    /\ user_input = <<>>
    /\ mirror_mode = FALSE
    /\ run = NoRun
    /\ runs = 0
    /\ DrawGatewayResult(call, variant, PlainPartFields)

SpecDebug == InitDebug /\ [][NextAsk]_vars

(***************************************************************************)
(* SpecMirror: one call of mirror_response on every subject and text.      *)
(***************************************************************************)
Subjects ==
    DOMAIN mirror_hierarchy \cup {<<>>, <<"hi">>, <<"mul", "bul">>, <<"Mul">>}
TextAtoms == {SP, NL, "flow", "x"}
Originals == SeqsUpTo(TextAtoms, MaxLen)

InitMirror ==
    /\ variant \in Variants
    /\ messages = <<>>
    /\ logfile = <<>>
    /\ monologue_running = FALSE
    /\ last_debug = EmptyDebug
    /\ user_input = <<>>
    /\ mirror_mode = TRUE
    /\ run = NoRun
    /\ runs = 0
    /\ call \in {[fn |-> "mirror_response", pc |-> "start", subject |-> sb,
                  original |-> o, result |-> <<>>] : sb \in Subjects, o \in Originals}

MirrorResponse ==
    /\ call.fn = "mirror_response"
    /\ call.pc = "start"
    /\ call' = [call EXCEPT !.pc = "done",
                            !.result = mirror_response(call.subject, call.original)]
    /\ UNCHANGED <<variant, messages, logfile, monologue_running, last_debug,
                   user_input, mirror_mode, run, runs>>

NextMirror == MirrorResponse

SpecMirror == InitMirror /\ [][NextMirror]_vars

(***************************************************************************)
(* What a response holds, read off the response itself.                    *)
(***************************************************************************)
AskDone == call.fn = "ask_gemini" /\ call.pc = "done"
GotResponse == AskDone /\ call.gw.kind = "resp"

CandidateList(resp) == IF resp.candidates.st = "ok" THEN resp.candidates.v ELSE <<>>

PartList(cand) ==
    IF cand.content.st = "ok" /\ cand.content.v.parts.st = "ok"
    THEN cand.content.v.parts.v ELSE <<>>

\* no attribute read of the candidates tree or of the prompt feedback fails
CandidateReadsCleanly(cand) ==
    /\ cand.finish_reason.st # "raise"
    /\ cand.content.st # "raise"
    /\ cand.content.st = "ok" => cand.content.v.parts.st # "raise"
    /\ \A j \in 1..Len(PartList(cand)) : PartList(cand)[j].st # "raise"

TreeReadsCleanly(resp) ==
    /\ resp.candidates.st # "raise"
    /\ \A i \in 1..Len(CandidateList(resp)) : CandidateReadsCleanly(CandidateList(resp)[i])

FeedbackReadsCleanly(resp) ==
    /\ resp.prompt_feedback.st # "raise"
    /\ resp.prompt_feedback.st = "ok" => resp.prompt_feedback.v.block_reason.st # "raise"

WellFormed(resp) == TreeReadsCleanly(resp) /\ FeedbackReadsCleanly(resp)

\* all parts, in candidate order then part order
RECURSIVE AllParts(_)
AllParts(cands) ==
    IF cands = <<>> THEN <<>> ELSE PartList(Head(cands)) \o AllParts(Tail(cands))

HasText(part) == part.st = "ok" /\ part.v # <<>>

TextParts(resp) == SelectSeq(AllParts(CandidateList(resp)), HasText)

Fragments(resp) == [i \in 1..Len(TextParts(resp)) |-> TextParts(resp)[i].v]

\* the fragments joined with a newline, trimmed
JoinedText(resp) == strip(join(<<NL>>, Fragments(resp)))

\* the block reason of the prompt feedback, <<>> when there is none
BlockReasonOf(resp) ==
    IF resp.prompt_feedback.st = "ok" /\ resp.prompt_feedback.v.block_reason.st = "ok"
    THEN resp.prompt_feedback.v.block_reason.v ELSE <<>>

HitLengthLimit(resp) ==
    \E i \in 1..Len(CandidateList(resp)) :
        CandidateList(resp)[i].finish_reason = Ok(MAX_TOKENS)

IsCallError(answer) == StartsWith(answer, <<WARN, CALL_ERROR_HEAD>>)

(***************************************************************************)
(* What app4 does with a well-formed response (the four outcomes).         *)
(***************************************************************************)
App4TextWins ==
    (GotResponse /\ variant = "app4" /\ WellFormed(call.gw.resp)
        /\ JoinedText(call.gw.resp) # <<>>)
    => call.answer = JoinedText(call.gw.resp)

App4Blocked ==
    (GotResponse /\ variant = "app4" /\ WellFormed(call.gw.resp)
        /\ JoinedText(call.gw.resp) = <<>> /\ BlockReasonOf(call.gw.resp) # <<>>)
    => call.answer = BlockedMessage(BlockReasonOf(call.gw.resp))

App4Truncated ==
    (GotResponse /\ variant = "app4" /\ WellFormed(call.gw.resp)
        /\ JoinedText(call.gw.resp) = <<>> /\ BlockReasonOf(call.gw.resp) = <<>>
        /\ HitLengthLimit(call.gw.resp))
    => call.answer = TruncatedMessage

App4Empty ==
    (GotResponse /\ variant = "app4" /\ WellFormed(call.gw.resp)
        /\ JoinedText(call.gw.resp) = <<>> /\ BlockReasonOf(call.gw.resp) = <<>>
        /\ ~HitLengthLimit(call.gw.resp))
    => call.answer = EmptyMessage4

\* app3 never shows the truncation message
App3NeverTruncated == (AskDone /\ variant = "app3") => call.answer # TruncatedMessage

(***************************************************************************)
(* C1.  For every well-formed response whose text fragments, joined with a *)
(* newline in candidate order then part order and trimmed, are not empty,  *)
(* the answer is exactly that text, whatever the block reason and the      *)
(* finish reasons are.  (The claim read with "non-empty" meaning non-empty *)
(* after trimming.)                                                        *)
(***************************************************************************)
C1_TextWins ==
    (GotResponse /\ WellFormed(call.gw.resp) /\ JoinedText(call.gw.resp) # <<>>)
    => call.answer = JoinedText(call.gw.resp)

(***************************************************************************)
(* C2.  For every well-formed response whose joined, trimmed text is empty *)
(* and whose prompt feedback carries a non-empty block reason, the answer  *)
(* is the blocked message, and it contains that reason, whatever the       *)
(* finish reasons are.                                                     *)
(***************************************************************************)
C2_BlockedNamesReason ==
    (GotResponse /\ WellFormed(call.gw.resp)
        /\ JoinedText(call.gw.resp) = <<>> /\ BlockReasonOf(call.gw.resp) # <<>>)
    => /\ call.answer = BlockedMessage(BlockReasonOf(call.gw.resp))
       /\ Contains(call.answer, BlockReasonOf(call.gw.resp))

(***************************************************************************)
(* C3.  For every well-formed response with no usable text, no block       *)
(* reason and a candidate whose finish reason is MAX_TOKENS, the answer    *)
(* holds the suggestion to raise the length limit and is not the generic   *)
(* retry message.                                                          *)
(***************************************************************************)
C3_TruncatedSuggestsRaise ==
    (GotResponse /\ WellFormed(call.gw.resp)
        /\ JoinedText(call.gw.resp) = <<>> /\ BlockReasonOf(call.gw.resp) = <<>>
        /\ HitLengthLimit(call.gw.resp))
    => /\ Contains(call.answer, <<SUGGEST_RAISE>>)
       /\ ~Contains(call.answer, <<NO_ANSWER>>)

(***************************************************************************)
(* C4.  Extraction never raises: whatever attribute read of a returned     *)
(* response fails, the answer is not the message of a failed gateway call. *)
(***************************************************************************)
C4_NeverReportedAsCallError == GotResponse => ~IsCallError(call.answer)

(***************************************************************************)
(* C5.  As claimed: after every call of ask_gemini, whatever its outcome,  *)
(* last_debug holds the list of finish reasons with one entry per          *)
(* candidate, the block reason and the count of text-bearing parts.        *)
(***************************************************************************)
ParsedKeys == {"finish_reasons", "block_reason", "num_parts_text"}

FinishReasonOf(cand) ==
    IF cand.finish_reason.st = "ok" THEN cand.finish_reason.v ELSE FR_NONE

Ran == runs > 0

\* the entries the input section of the last run appended
InputEntries ==
    SubSeq(messages, Len(messages) - run.n_mono - run.n_input + 1,
           Len(messages) - run.n_mono)

\* the script run stops with an uncaught IndexError exactly when the text is
\* not empty, holds only whitespace, and mirror mode is on
FailsOnlyOnBlankMirror ==
    Ran => (run.failed <=> (user_input # <<>> /\ strip(user_input) = <<>> /\ mirror_mode))

\* with an empty text box the input section appends nothing
EmptyInputAppendsNothing == (Ran /\ user_input = <<>>) => run.n_input = 0

(***************************************************************************)
(* C6.  A submit with a non-empty user text appends exactly two entries to *)
(* the transcript, the user entry with the text and then an assistant      *)
(* entry.                                                                  *)
(***************************************************************************)
C6_SubmitAppendsUserThenAssistant ==
    (Ran /\ user_input # <<>>)
    => /\ run.n_input = 2
       /\ InputEntries[1] = UserEntry(user_input)
       /\ InputEntries[2].role = "assistant"

(***************************************************************************)
(* C7.  Every script run completes without a propagated failure: for every *)
(* user text, whitespace-only text included, with mirror mode on or off    *)
(* and whatever the gateway does, no exception leaves the submit or the    *)
(* tick.                                                                   *)
(***************************************************************************)
C7_NoPropagatedFailure == Ran => ~run.failed

(***************************************************************************)
(* C8.  The monologue flag changes only through the start and stop         *)
(* buttons: start leaves it Running, stop leaves it Idle, no click leaves  *)
(* it as it was.  A monologue entry is appended only in a run whose flag   *)
(* is Running, at most one per run, and never in the run that processes    *)
(* stop.  A submit is handled the same in both states: a non-empty text    *)
(* appends its two entries unless the run fails.                           *)
(***************************************************************************)
FlagStep ==
    /\ run'.click = "start" => monologue_running'
    /\ run'.click = "stop" => ~monologue_running'
    /\ run'.click = "none" => monologue_running' = monologue_running
    /\ run'.n_mono \in {0, 1}
    /\ run'.n_mono = 1 => monologue_running'
    /\ run'.click = "stop" => run'.n_mono = 0
    /\ (monologue_running' /\ ~run'.failed) => run'.n_mono = 1
    /\ user_input' # <<>> => (run'.failed \/ run'.n_input = 2)

C8_FlagOnlyByStartStop == [][FlagStep]_vars

\* a run with a monologue entry first, then a run that processes stop and
\* still handles a submit
C8_Witness ==
    /\ runs = 2
    /\ run.click = "stop"
    /\ ~monologue_running
    /\ run.n_input = 2
    /\ run.n_mono = 0
    /\ Len(messages) = 3
    /\ messages[1].role = "assistant"

(***************************************************************************)
(* The log a transcript calls for: one USER/ASSISTANT record per user      *)
(* entry and the assistant entry after it, one ASSISTANT(MONO) record per  *)
(* other assistant entry, in transcript order.                             *)
(***************************************************************************)
RECURSIVE ExpectedLog(_)
ExpectedLog(ms) ==
    IF ms = <<>> THEN <<>>
    ELSE IF Head(ms).role = "user" /\ Len(ms) >= 2
    THEN << <<"USER: ">> \o ms[1].text \o <<NL, "ASSISTANT: ">> \o ms[2].text \o <<NL>> >>
         \o ExpectedLog(SubSeq(ms, 3, Len(ms)))
    ELSE << <<"ASSISTANT(MONO): ">> \o Head(ms).text \o <<NL>> >>
         \o ExpectedLog(Tail(ms))

IsPrefix(a, b) == Len(a) <= Len(b) /\ SubSeq(b, 1, Len(a)) = a

RECURSIVE IsSubsequence(_, _)
IsSubsequence(a, b) ==
    IF a = <<>> THEN TRUE
    ELSE IF b = <<>> THEN FALSE
    ELSE IF Head(a) = Head(b) THEN IsSubsequence(Tail(a), Tail(b))
    ELSE IsSubsequence(a, Tail(b))

(***************************************************************************)
(* C9.  As claimed: the log always holds exactly the records of the        *)
(* transcript, in transcript order.                                        *)
(***************************************************************************)
C9_LogMirrorsTranscript == logfile = ExpectedLog(messages)

(***************************************************************************)
(* C9, amended.  The transcript and the log only grow at the end.  The log *)
(* holds the records of the transcript in transcript order, except those   *)
(* whose write failed: a failed write is swallowed and its record is       *)
(* missing, so the log is the full list of records only when no write      *)
(* failed.                                                                 *)
(***************************************************************************)
LogFollowsTranscript ==
    \E expected \in {ExpectedLog(messages)} :
        /\ IsSubsequence(logfile, expected)
        /\ Len(logfile) + run.lost = Len(expected)

AppendOnlyStep ==
    /\ IsPrefix(messages, messages')
    /\ IsPrefix(logfile, logfile')
    /\ LogFollowsTranscript'

C9_AppendOnlyLogInOrder == [][AppendOnlyStep]_vars

\* a run with a submit and a tick, both logged
C9_Witness ==
    /\ Ran
    /\ run.n_input = 2
    /\ run.n_mono = 1
    /\ run.lost = 0
    /\ Len(logfile) >= 2
    /\ logfile = ExpectedLog(messages)

(***************************************************************************)
(* C10.  mirror_response is defined for every subject and text.  The table *)
(* has five subjects.  For a subject of the table the result names the     *)
(* subject, holds the trimmed text on its "original" line and ends with    *)
(* the subject's conclusion.  For any other subject the result is the      *)
(* no-definition notice naming the subject, a blank line, and the text     *)
(* exactly as given, untrimmed.                                            *)
(***************************************************************************)
MirrorDone == call.fn = "mirror_response" /\ call.pc = "done"

C10_MirrorFallsBackToOriginal ==
    /\ Cardinality(DOMAIN mirror_hierarchy) = 5
    /\ MirrorDone =>
        IF call.subject \in {K_WATER, K_FIRE, K_WIND, K_EARTH, K_MONO}
        THEN /\ Contains(call.result, call.subject)
             /\ Contains(call.result, <<"- original: ">> \o strip(call.original) \o <<NL>>)
             /\ EndsWith(call.result, mirror_hierarchy[call.subject])
             /\ call.subject = K_WIND
                    => EndsWith(call.result, <<"breath of freedom and flow">>)
        ELSE /\ StartsWith(call.result, NoDefinitionNotice(call.subject))
             /\ Contains(NoDefinitionNotice(call.subject), call.subject)
             /\ EndsWith(call.result, <<NL, NL>> \o call.original)
             /\ Len(call.result) = Len(NoDefinitionNotice(call.subject)) + 2 + Len(call.original)

\* both cases with a text that trimming would change
C10_Witness ==
    /\ MirrorDone
    /\ call.subject = K_WIND
    /\ call.original = <<SP, "flow", NL>>
    /\ Contains(call.result, <<"- original: ", "flow", NL>>)
    /\ EndsWith(call.result, <<"breath of freedom and flow">>)

====
